---- MODULE Spec2Model ----
(***************************************************************************)
(* Model of resolver/src/name_server_pool.rs: the per-server connection     *)
(* state machine (NameServerState / NameServerStats), the NameServer        *)
(* handle with its shared stats cell (Arc<Mutex<NameServerStats>>) and      *)
(* reconnect-with-backoff, and the NameServerPool built on a BinaryHeap of  *)
(* NameServer handles.                                                      *)
(*                                                                          *)
(* Heap cells (the Arc<Mutex<..>> allocations) are the elements of the      *)
(* sequence `cells`; an Arc is an index into it.  A NameServer handle is a  *)
(* record [cfg, client, stats]: cfg is the index of its NameServerConfig,   *)
(* client the identity of its BasicClientHandle, stats its Arc.  Time is    *)
(* the value of Instant::now() in seconds.                                  *)
(***************************************************************************)
EXTENDS Integers, Sequences, FiniteSets, Bags, TLC

VARIABLES
    phase,      \* "config" before NameServerPool::from_config, "running" after
    config,     \* ResolverConfig.name_servers(): sequence of protocols
    pools,      \* the NameServerPool values alive: each its conns heap (a Vec)
    cells,      \* every Mutex<NameServerStats> allocated so far
    nclients,   \* number of BasicClientHandle connections created so far
    inflight,   \* bag of transport sends awaiting their response
    calls,      \* number of NameServerPool::send calls made so far
    now,        \* Instant::now()
    advances,   \* how many times the clock has been moved
    panicked,   \* a panic (unimplemented!(), expect) has unwound the program
    failedAt,   \* per configured server: the time of its latest next_failure
    last        \* the operation performed by the latest step and its result

vars == <<phase, config, pools, cells, nclients, inflight, calls, now,
          advances, panicked, failedAt, last>>

----------------------------------------------------------------------------
(* Program constants and bounds *)

MIN_RETRY_DELAYms == 500
MAX_RETRY_DELAYs == 360

MaxServers == 2
MaxPools == 2
MaxCalls == 3
MaxAdvances == 1
MaxInFlight == 2
MaxCount == 1
MaxStat == 2

None == "None"

Protocols == {"Udp", "Tcp", "Tls"}
TransportErrors == {"timeout", "refused"}
EdnsValues == {"edns0"}
LockError == "Error acquiring NameServerStats lock"
NoConnectionsAvailable == "No connections available"

\* the protocols the configurations are drawn from: Tcp takes the same path
\* through new_connection as Udp
ConfiguredProtocols == {"Udp", "Tls"}

\* the clock moves by exactly the retry delay or by one second more
Jumps == {MAX_RETRY_DELAYs, MAX_RETRY_DELAYs + 1}

----------------------------------------------------------------------------
(* NameServerState, NameServerStats *)

\* faulty variant: Established is ranked above Init
to_usize_EstablishedFirst(state) ==
    CASE state.tag = "Init" -> 2
      [] state.tag = "Established" -> 3
      [] state.tag = "Failed" -> 1

to_usize(state) ==
    CASE state.tag = "Init" -> 3
      [] state.tag = "Established" -> 2
      [] state.tag = "Failed" -> 1

IntCmp(a, b) == IF a < b THEN "Less" ELSE IF a = b THEN "Equal" ELSE "Greater"

StateCmp(a, b) == IntCmp(to_usize(a), to_usize(b))

StateEq(a, b) == to_usize(a) = to_usize(b)

\* #[derive(PartialEq)] on NameServerStats, with NameServerState's own eq
StatsEq(a, b) ==
    /\ StateEq(a.state, b.state)
    /\ a.successes = b.successes
    /\ a.failures = b.failures

\* faulty variant: the counters start again from zero
init_ResetsCounters(send_edns, successes, failures) ==
    [state |-> [tag |-> "Init", send_edns |-> send_edns],
     successes |-> 0,
     failures |-> 0]

init(send_edns, successes, failures) ==
    [state |-> [tag |-> "Init", send_edns |-> send_edns],
     successes |-> successes,
     failures |-> failures]

DefaultStats == init(None, 0, 0)

\* faulty variant: the Edns of an Established state is not kept
next_success_ForgetsEdns(stats, remote_edns) ==
    [state |-> [tag |-> "Established", remote_edns |-> remote_edns],
     successes |-> stats.successes + 1,
     failures |-> stats.failures]

next_success(stats, remote_edns) ==
    LET kept == IF stats.state.tag = "Established"
                THEN stats.state.remote_edns
                ELSE None
    IN [state |-> [tag |-> "Established",
                   remote_edns |-> IF remote_edns # None THEN remote_edns ELSE kept],
        successes |-> stats.successes + 1,
        failures |-> stats.failures]

next_failure(stats, error, when) ==
    [state |-> [tag |-> "Failed", error |-> error, when |-> when],
     successes |-> stats.successes,
     failures |-> stats.failures + 1]

\* faulty variant: the failure comparison is not inverted
StatsCmp_FailuresNotInverted(a, b) ==
    IF StatsEq(a, b) THEN "Equal"
    ELSE IF StateCmp(a.state, b.state) # "Equal" THEN StateCmp(a.state, b.state)
    ELSE IF a.failures >= b.failures THEN "Greater"
    ELSE IntCmp(a.successes, b.successes)

StatsCmp(a, b) ==
    IF StatsEq(a, b) THEN "Equal"
    ELSE IF StateCmp(a.state, b.state) # "Equal" THEN StateCmp(a.state, b.state)
    ELSE IF a.failures <= b.failures THEN "Greater"
    ELSE IntCmp(a.successes, b.successes)

----------------------------------------------------------------------------
(* NameServer *)

\* Mutex::new(stats): not poisoned, no guard alive
Mutex(stats) == [stats |-> stats, poisoned |-> FALSE, held |-> FALSE]

\* Mutex::lock returns: a guard is alive (also inside the PoisonError of a
\* poisoned lock)
Lock(m) == [m EXCEPT !.held = TRUE]

\* faulty variant: the guard outlives the closure it was taken in
Unlock_KeepsGuard(m) == m

\* the guard is dropped at the end of the closure that owns it
Unlock(m) == [m EXCEPT !.held = FALSE]

NameServerHandle(cfg, client, stats) ==
    [cfg |-> cfg, client |-> client, stats |-> stats]

\* new_connection reaches unimplemented!() for every protocol but Udp and Tcp
new_connection_panics(protocol) == protocol \notin {"Udp", "Tcp"}

\* faulty variant: the delay is taken from the other constant
DelayExpired_WrongConstant(t, when) == t - when > MIN_RETRY_DELAYms

\* the retry delay has expired for a failure recorded at `when`
DelayExpired(t, when) == t - when > MAX_RETRY_DELAYs

\* faulty variant: a rejected call restarts the backoff window
try_reconnect_Refreshes(conn, cs, nc, t) ==
    LET m == cs[conn.stats]
    IN IF ~m.poisoned /\ m.stats.state.tag = "Failed"
       THEN [result |-> m.stats.state.error, conn |-> conn,
             cells |-> [cs EXCEPT ![conn.stats].stats.state.when = t],
             nclients |-> nc, panicked |-> FALSE]
       ELSE [result |-> "Ok", conn |-> conn, cells |-> cs, nclients |-> nc,
             panicked |-> FALSE]

\* try_reconnect on handle conn at time t, with the cells cs and nc connections
\* made so far: the Result, the handle afterwards and the allocations made
try_reconnect(conn, cs, nc, t) ==
    LET m == Lock(cs[conn.stats])
        released == [cs EXCEPT ![conn.stats] = Unlock(m)]
        same == [conn |-> conn, cells |-> released, nclients |-> nc,
                 panicked |-> FALSE]
    IN IF m.poisoned
       THEN [result |-> LockError] @@ same
       ELSE IF m.stats.state.tag = "Failed"
       THEN IF DelayExpired(t, m.stats.state.when)
            THEN IF new_connection_panics(config[conn.cfg])
                 THEN [result |-> "panic", conn |-> conn, cells |-> released,
                       nclients |-> nc, panicked |-> TRUE]
                 ELSE [result |-> "Ok",
                       conn |-> NameServerHandle(conn.cfg, nc + 1, Len(cs) + 1),
                       cells |-> Append(released,
                                        Mutex(init(None, m.stats.successes,
                                                   m.stats.failures))),
                       nclients |-> nc + 1,
                       panicked |-> FALSE]
            ELSE [result |-> m.stats.state.error] @@ same
       ELSE [result |-> "Ok"] @@ same

\* NameServer::send up to the point where the future is returned: either the
\* future is already resolved with an error (sent is empty) or the message
\* has been handed to the client and the closures hold clones of the Arc
NameServerSend(conn, cs, nc, t) ==
    LET r == try_reconnect(conn, cs, nc, t)
    IN IF r.result # "Ok"
       THEN [sent |-> EmptyBag] @@ r
       ELSE [result |-> "Pending",
             sent |-> SetToBag({[srv |-> r.conn.cfg,
                                 mutex |-> r.conn.stats,
                                 client |-> r.conn.client]}),
             conn |-> r.conn, cells |-> r.cells, nclients |-> r.nclients,
             panicked |-> FALSE]

\* PartialEq for NameServer: equal configs
NameServerEq(a, b) == a.cfg = b.cfg

\* Ord for NameServer, when both locks can be taken
NameServerCmp(a, b, cs) ==
    IF NameServerEq(a, b) THEN "Equal"
    ELSE StatsCmp(cs[a.stats].stats, cs[b.stats].stats)

\* one of the two expect("poisoned lock in NameServer::cmp") fires
CmpPanics(a, b, cs) ==
    /\ ~NameServerEq(a, b)
    /\ (cs[a.stats].poisoned \/ cs[b.stats].poisoned)

\* the cells after a panicking cmp: the guard of a is dropped by the unwind
\* when the lock of b is the poisoned one
CmpPoisons(a, b, cs) ==
    IF ~cs[a.stats].poisoned /\ cs[b.stats].poisoned
    THEN [cs EXCEPT ![a.stats].poisoned = TRUE]
    ELSE cs

Gt(a, b, cs) == NameServerCmp(a, b, cs) = "Greater"
Ge(a, b, cs) == NameServerCmp(a, b, cs) \in {"Greater", "Equal"}

----------------------------------------------------------------------------
(* BinaryHeap<NameServer> *)

Swap(heap, i, j) == [heap EXCEPT ![i] = heap[j], ![j] = heap[i]]

\* BinaryHeap::sift_down_range, positions counted from 1
RECURSIVE sift_down_range(_, _, _, _)
sift_down_range(heap, pos, end, cs) ==
    LET left == 2 * pos
        right == left + 1
        done == [heap |-> heap, cells |-> cs, panicked |-> FALSE]
    IN IF left > end THEN done
       ELSE IF right <= end /\ CmpPanics(heap[left], heap[right], cs)
       THEN [heap |-> heap, cells |-> CmpPoisons(heap[left], heap[right], cs),
             panicked |-> TRUE]
       ELSE LET child == IF right <= end /\ ~Gt(heap[left], heap[right], cs)
                         THEN right ELSE left
            IN IF CmpPanics(heap[pos], heap[child], cs)
               THEN [heap |-> heap, cells |-> CmpPoisons(heap[pos], heap[child], cs),
                     panicked |-> TRUE]
               ELSE IF Ge(heap[pos], heap[child], cs) THEN done
               ELSE sift_down_range(Swap(heap, pos, child), child, end, cs)

sift_down(heap, pos, cs) == sift_down_range(heap, pos, Len(heap), cs)

\* BinaryHeap::from(Vec): sift_down(n) for n = len/2 down to the root
RECURSIVE rebuild(_, _, _)
rebuild(heap, n, cs) ==
    IF n = 0 THEN heap
    ELSE rebuild(sift_down(heap, n, cs).heap, n - 1, cs)

----------------------------------------------------------------------------
(* Results and the record of the latest step *)

Ok(response) == [kind |-> "ok", value |-> response]
Err(error) == [kind |-> "err", value |-> error]
Pending == [kind |-> "pending", value |-> None]
NoResult == [kind |-> "none", value |-> None]

\* what the transport can answer: a response (named by the Edns it carries)
\* or a connection error
Outcomes ==
    {Ok(e) : e \in EdnsValues \cup {None}} \cup {Err(e) : e \in TransportErrors}

Event(type, pool, srv, result, attempts, outcome) ==
    [type |-> type, pool |-> pool, srv |-> srv, result |-> result,
     attempts |-> attempts, outcome |-> outcome]

NoEvent(type) == Event(type, 0, 0, NoResult, 0, NoResult)

Configs == UNION {[1..n -> ConfiguredProtocols] : n \in 0..MaxServers}

----------------------------------------------------------------------------
(* Operations *)

Init ==
    /\ phase = "config"
    /\ config \in Configs
    /\ pools = <<>>
    /\ cells = <<>>
    /\ nclients = 0
    /\ inflight = EmptyBag
    /\ calls = 0
    /\ now = 0
    /\ advances = 0
    /\ panicked = FALSE
    /\ failedAt = <<>>
    /\ last = NoEvent("none")

\* NameServer::new for every server of cfg: a stats cell each
NewCells(cfg) == [i \in DOMAIN cfg |-> Mutex(DefaultStats)]

\* the heap collected from the NameServers of cfg
NewPool(cfg) ==
    rebuild([i \in DOMAIN cfg |-> NameServerHandle(i, i, i)],
            Len(cfg) \div 2, NewCells(cfg))

\* NameServerPool::from_config: NameServer::new for every configured server,
\* collected into the heap
FromConfig ==
    /\ phase = "config"
    /\ phase' = "running"
    /\ IF \E i \in DOMAIN config : new_connection_panics(config[i])
       THEN /\ panicked' = TRUE
            /\ last' = NoEvent("from_config")
            /\ UNCHANGED <<pools, cells, nclients, failedAt>>
       ELSE /\ panicked' = FALSE
            /\ cells' = NewCells(config)
            /\ nclients' = Len(config)
            /\ pools' = <<NewPool(config)>>
            /\ failedAt' = [i \in DOMAIN config |-> {}]
            /\ last' = NoEvent("from_config")
    /\ UNCHANGED <<config, inflight, calls, now, advances>>

\* #[derive(Clone)] on NameServerPool: the heap is cloned, every NameServer
\* in it with its Arc and its client handle
ClonePool(p) ==
    /\ phase = "running" /\ ~panicked
    /\ Len(pools) < MaxPools
    /\ pools' = Append(pools, pools[p])
    /\ last' = NoEvent("clone")
    /\ UNCHANGED <<phase, config, cells, nclients, inflight, calls, now,
                   advances, panicked, failedAt>>

\* faulty variant: the empty pool answers with another error
EmptyPoolResult_OtherError == Err(LockError)

\* the future NameServerPool::send returns when peek_mut finds no connection
EmptyPoolResult == Err(NoConnectionsAvailable)

\* faulty variant: when the root fails at once the next connection is tried
Dispatch_Fallback(heap, cs, nc, t) ==
    LET r == NameServerSend(heap[1], cs, nc, t)
    IN IF r.result = "Pending" \/ Len(heap) < 2 THEN r
       ELSE LET r2 == NameServerSend(heap[2], r.cells, r.nclients, t)
            IN [r EXCEPT !.result = r2.result, !.sent = r2.sent]

\* conn.send(message) on the connection peek_mut selected: the root of the heap
Dispatch(heap, cs, nc, t) == NameServerSend(heap[1], cs, nc, t)

\* NameServerPool::send on pool p: peek_mut, NameServer::send on the root,
\* and the drop of the PeekMut, which sifts the root down; the locks taken
\* on the way (try_reconnect, NameServer::cmp) wait while a guard is alive
PoolSendOn(p) ==
    /\ phase = "running" /\ ~panicked
    /\ \A i \in DOMAIN pools[p] : ~cells[pools[p][i].stats].held
    /\ IF Len(pools[p]) = 0
       THEN /\ last' = Event("send", p, 0, EmptyPoolResult, 0, NoResult)
            /\ UNCHANGED <<pools, cells, nclients, inflight, panicked>>
       ELSE LET heap == pools[p]
                r == Dispatch(heap, cells, nclients, now)
                drop == sift_down([heap EXCEPT ![1] = r.conn], 1, r.cells)
            IN /\ pools' = [pools EXCEPT ![p] = drop.heap]
               /\ cells' = drop.cells
               /\ nclients' = r.nclients
               /\ inflight' = inflight (+) r.sent
               /\ panicked' = (r.panicked \/ drop.panicked)
               /\ last' = Event("send", p, heap[1].cfg,
                                IF r.result = "Pending" THEN Pending ELSE Err(r.result),
                                BagCardinality(r.sent), NoResult)
    /\ UNCHANGED <<phase, config, now, advances, failedAt>>

\* one of the MaxCalls calls of NameServerPool::send
PoolSend(p) ==
    /\ calls < MaxCalls
    /\ calls' = calls + 1
    /\ PoolSendOn(p)

\* the and_then closure of NameServer::send, run on a response
AndThen(m, response) ==
    IF m.poisoned
    THEN [mutex |-> Unlock(Lock(m)), result |-> Err(LockError), failed |-> FALSE]
    ELSE [mutex |-> Unlock([Lock(m) EXCEPT !.stats = next_success(@, response)]),
          result |-> Ok(response), failed |-> FALSE]

\* faulty variant: the lock error of the bookkeeping replaces the transport's error
OrElse_MasksError(m, error, t) ==
    IF m.poisoned
    THEN [mutex |-> m, result |-> Err(LockError), failed |-> FALSE]
    ELSE [mutex |-> [m EXCEPT !.stats = next_failure(@, error, t)],
          result |-> Err(error), failed |-> TRUE]

\* the or_else closure of NameServer::send, run on an error at time t
OrElse(m, error, t) ==
    IF m.poisoned
    THEN [mutex |-> Unlock(Lock(m)), result |-> Err(error), failed |-> FALSE]
    ELSE [mutex |-> Unlock([Lock(m) EXCEPT !.stats = next_failure(@, error, t)]),
          result |-> Err(error), failed |-> TRUE]

\* client.send(message).and_then(..).or_else(..) on the transport's outcome:
\* an error made by the and_then closure goes through or_else as well
SendFuture(m, outcome, t) ==
    IF outcome.kind = "ok"
    THEN LET a == AndThen(m, outcome.value)
         IN IF a.result.kind = "ok" THEN a ELSE OrElse(a.mutex, a.result.value, t)
    ELSE OrElse(m, outcome.value, t)

\* counters above MaxCount are not told apart
Clamp(stats) ==
    [stats EXCEPT !.successes = IF @ > MaxCount THEN MaxCount ELSE @,
                  !.failures = IF @ > MaxCount THEN MaxCount ELSE @]

\* the transport answers the send f with outcome (the closure waits for the
\* lock while a guard is alive); with clamped, counters above MaxCount are
\* not told apart
CompleteWith(f, outcome, clamped) ==
    /\ phase = "running" /\ ~panicked
    /\ BagIn(f, inflight)
    /\ ~cells[f.mutex].held
    /\ LET r == SendFuture(cells[f.mutex], outcome, now)
       IN /\ cells' = [cells EXCEPT ![f.mutex] = [r.mutex EXCEPT !.stats = IF clamped THEN Clamp(@) ELSE @]]
          /\ failedAt' = IF r.failed THEN [failedAt EXCEPT ![f.srv] = {now}]
                         ELSE failedAt
          /\ last' = Event("complete", 0, f.srv, r.result, 0, outcome)
    /\ inflight' = inflight (-) SetToBag({f})
    /\ UNCHANGED <<phase, config, pools, nclients, calls, now, advances,
                   panicked>>

Complete(f, outcome) == CompleteWith(f, outcome, FALSE)

\* Instant::now() moves on
Advance(d) ==
    /\ phase = "running" /\ ~panicked
    /\ advances < MaxAdvances
    /\ now' = now + d
    /\ advances' = advances + 1
    /\ last' = NoEvent("advance")
    /\ UNCHANGED <<phase, config, pools, cells, nclients, inflight, calls,
                   panicked, failedAt>>

Next ==
    \/ FromConfig
    \/ \E p \in DOMAIN pools : ClonePool(p)
    \/ \E p \in DOMAIN pools : PoolSend(p)
    \/ \E f \in BagToSet(inflight), o \in Outcomes : Complete(f, o)
    \/ \E d \in Jumps : Advance(d)

Spec == Init /\ [][Next]_vars

\* a thread panics while it holds the guard of cell c: the Mutex is poisoned
\* and every later lock() on it returns Err
PoisonLock(c) ==
    /\ phase = "running" /\ ~panicked
    /\ ~cells[c].poisoned
    /\ cells' = [cells EXCEPT ![c].poisoned = TRUE]
    /\ last' = NoEvent("poison")
    /\ UNCHANGED <<phase, config, pools, nclients, inflight, calls, now,
                   advances, panicked, failedAt>>

NextPoison ==
    \/ FromConfig
    \/ \E p \in DOMAIN pools : PoolSend(p)
    \/ \E f \in BagToSet(inflight), o \in Outcomes : Complete(f, o)
    \/ \E d \in Jumps : Advance(d)
    \/ \E c \in DOMAIN cells : PoisonLock(c)

\* one pool, together with panics that poison stats locks
SpecPoison == Init /\ [][NextPoison]_vars

----------------------------------------------------------------------------
(* The pool in continuous use *)

CompleteClamped(f, outcome) == CompleteWith(f, outcome, TRUE)

\* the pool NameServerPool::from_config returns for MaxServers Udp servers
LiveInit ==
    /\ phase = "running"
    /\ config = [i \in 1..MaxServers |-> "Udp"]
    /\ pools = <<NewPool(config)>>
    /\ cells = NewCells(config)
    /\ nclients = Len(config)
    /\ inflight = EmptyBag
    /\ calls = 0
    /\ now = 0
    /\ advances = 0
    /\ panicked = FALSE
    /\ failedAt = [i \in DOMAIN config |-> {}]
    /\ last = NoEvent("from_config")

\* a send, while fewer than MaxInFlight sends await their answer
LiveSend ==
    /\ BagCardinality(inflight) < MaxInFlight
    /\ \E p \in DOMAIN pools : PoolSendOn(p)
    /\ UNCHANGED calls
LiveComplete == \E f \in BagToSet(inflight), o \in Outcomes : CompleteClamped(f, o)
LiveAdvance == \E d \in Jumps : Advance(d)

LiveNext == LiveSend \/ LiveComplete \/ LiveAdvance

\* callers keep sending, every send handed to a transport is answered, and
\* the clock moves while it can
LiveSpec ==
    /\ LiveInit
    /\ [][LiveNext]_vars
    /\ WF_vars(LiveSend)
    /\ WF_vars(LiveComplete)
    /\ WF_vars(LiveAdvance)

----------------------------------------------------------------------------
(* Properties *)

StatsOf(h) == cells[h.stats].stats

\* the handle pool p holds for the configured server s
HandleFor(p, s) == pools[p][CHOOSE i \in DOMAIN pools[p] : pools[p][i].cfg = s]

\* the same handle after the step
HandleAfter(p, s) == pools'[p][CHOOSE i \in DOMAIN pools'[p] : pools'[p][i].cfg = s]

\* a step that is a NameServerPool::send (every operation writes `last`)
IsSend == last'.type = "send"
IsComplete == last'.type = "complete"

\* the sends handed to a transport by the step
Issued == inflight' (-) inflight

\* server s is maximal in pool p under the ranking of the current stats
Maximal(p, s) ==
    \A i \in DOMAIN pools[p] :
        StatsCmp(StatsOf(HandleFor(p, s)), StatsOf(pools[p][i])) # "Less"

\* C1: every NameServerPool::send dispatches to a server that is maximal
\* under the NameServerStats ranking of the stats current at the call (an
\* Init server is taken before an Established one whatever the counters)
C1_DispatchesToMaximal ==
    [][(IsSend /\ last'.srv # 0) => Maximal(last'.pool, last'.srv)]_vars

\* C2: no send arriving before T + max_retry_delay, T the time the server
\* was marked Failed, hands a message to the transport of that server
C2_NoTransportCallInBackoff ==
    (last.type = "send" /\ last.attempts > 0)
        => \A T \in failedAt[last.srv] : now >= T + MAX_RETRY_DELAYs

\* the root of the heap of the pool the step sends on, before the step
Root == pools[last'.pool][1]

\* the step is a send on a server whose stats are Failed since `when`
SendOnFailed ==
    /\ IsSend
    /\ Len(pools[last'.pool]) > 0
    /\ ~cells[Root.stats].poisoned
    /\ StatsOf(Root).state.tag = "Failed"

\* the step rebuilt the transport of the root, reset its stats to Init and
\* handed the message to the new transport
Reconnects ==
    LET after == HandleAfter(last'.pool, Root.cfg)
    IN /\ after.client # Root.client
       /\ after.client > nclients
       /\ after.stats # Root.stats
       /\ cells'[after.stats].stats.state.tag = "Init"
       /\ Issued = SetToBag({[srv |-> Root.cfg, mutex |-> after.stats,
                              client |-> after.client]})
       /\ last'.result = Pending

\* C3 as claimed: a send on a Failed server arriving at or after
\* T + max_retry_delay (the instant T + max_retry_delay included) reconnects
C3_ReconnectsAtOrAfterDelay ==
    [][(SendOnFailed /\ now >= StatsOf(Root).state.when + MAX_RETRY_DELAYs)
          => Reconnects]_vars

\* C3 amended: a send on a Failed server arriving strictly after
\* T + max_retry_delay reconnects: the transport is rebuilt, the stats become
\* Init and the message is handed to the new transport
C3_ReconnectsAfterDelay ==
    [][(SendOnFailed /\ now > StatsOf(Root).state.when + MAX_RETRY_DELAYs)
          => Reconnects]_vars

C3_Witness ==
    /\ last.type = "send"
    /\ last.attempts = 1
    /\ BagCardinality(inflight) = 1
    /\ HandleFor(last.pool, last.srv).client > Len(config)
    /\ StatsOf(HandleFor(last.pool, last.srv)).state.tag = "Init"
    /\ \E T \in failedAt[last.srv] : now > T + MAX_RETRY_DELAYs

\* C4: a send on a server that is Failed with the retry delay not expired
\* resolves at once with the error stored in the Failed state, hands nothing
\* to the transport and leaves the transport handle and the stats (state,
\* failure time, counters) as they were
C4_FailFast ==
    [][(SendOnFailed /\ now <= StatsOf(Root).state.when + MAX_RETRY_DELAYs)
          => /\ last'.result = Err(StatsOf(Root).state.error)
             /\ Issued = EmptyBag
             /\ HandleAfter(last'.pool, Root.cfg) = Root
             /\ cells' = cells
             /\ nclients' = nclients]_vars

C4_Witness ==
    /\ last.type = "send"
    /\ last.attempts = 0
    /\ last.srv # 0
    /\ StatsOf(HandleFor(last.pool, last.srv)).state.tag = "Failed"
    /\ last.result = Err(StatsOf(HandleFor(last.pool, last.srv)).state.error)
    /\ now > 0

\* C5: the handles of all clones that refer to the same configured server
\* see the same stats
C5_ClonesShareStats ==
    \A p \in DOMAIN pools, q \in DOMAIN pools :
        \A i \in DOMAIN pools[p], j \in DOMAIN pools[q] :
            pools[p][i].cfg = pools[q][j].cfg
                => StatsOf(pools[p][i]) = StatsOf(pools[q][j])

\* the handle pool p holds for server s is Failed and its retry delay is over
FailedExpired(p, s) ==
    /\ StatsOf(HandleFor(p, s)).state.tag = "Failed"
    /\ DelayExpired(now, StatsOf(HandleFor(p, s)).state.when)

Failed(p, s) == StatsOf(HandleFor(p, s)).state.tag = "Failed"

\* C6: while sends keep being issued on a pool of two or more servers, a
\* server that is Failed with its retry delay over is eventually reconnected
\* (its handle leaves the Failed state), also when the other servers stay
\* healthy: from then on either it is reconnected or another server fails
C6_FailedEventuallyReconnected ==
    \A s \in 1..MaxServers :
        FailedExpired(1, s)
            ~> (~Failed(1, s) \/ \E t \in 1..MaxServers \ {s} : Failed(1, t))

\* C7: send on a pool without servers resolves with the "No connections
\* available" error, calls no transport and changes no state
C7_EmptyPool ==
    [][(IsSend /\ Len(pools[last'.pool]) = 0)
          => /\ last'.result = Err(NoConnectionsAvailable)
             /\ last'.attempts = 0
             /\ UNCHANGED <<phase, config, pools, cells, nclients, inflight,
                            now, advances, panicked, failedAt>>]_vars

C7_Witness ==
    /\ last.type = "send"
    /\ Len(pools[last.pool]) = 0
    /\ last.result = Err(NoConnectionsAvailable)

\* C8: with a server configured for Tls, building its transport gives an
\* error value and the program never panics
C8_TlsNeverPanics ==
    (\E i \in DOMAIN config : config[i] = "Tls") => ~panicked

\* C10: a NameServerPool::send hands at most one message to a transport, of
\* the server it selected, and resolves with the outcome of that send; when
\* the send fails no message is handed to any other server
C10_OneAttemptNoFallback ==
    [][/\ IsSend =>
            /\ BagCardinality(Issued) <= 1
            /\ \A f \in BagToSet(Issued) : f.srv = pools[last'.pool][1].cfg
            /\ inflight \sqsubseteq inflight'
            /\ last'.result.kind \in {"pending", "err"}
       /\ IsComplete =>
            /\ BagCardinality(Issued) = 0
            /\ last'.result = last'.outcome]_vars

C10_Witness ==
    /\ last.type = "complete"
    /\ last.result.kind = "err"
    /\ Len(pools[1]) >= 2
    /\ BagCardinality(inflight) = 0

\* C9: a send whose transport attempt fails resolves with the transport's
\* error, whether the stats lock could be taken for the bookkeeping or not
C9_TransportErrorNotMasked ==
    (last.type = "complete" /\ last.outcome.kind = "err")
        => last.result = last.outcome

C9_Witness ==
    /\ last.type = "complete"
    /\ last.outcome.kind = "err"
    /\ last.result = last.outcome
    /\ Len(cells) = 1
    /\ cells[1].poisoned
    /\ cells[1].stats.failures = 0

\* the state tag seen through the handle pool p holds for server s
TagOf(p, s) == StatsOf(HandleFor(p, s)).state.tag

\* the same tag after the step
TagAfter(p, s) == cells'[HandleAfter(p, s).stats].stats.state.tag

\* C11: no step takes the state of a server from Failed to Established;
\* the Init state made by try_reconnect lies between the two, also when
\* several sends to the server are in flight
C11_NoFailedToEstablished ==
    [][\A p \in DOMAIN pools : \A i \in DOMAIN pools[p] :
          TagOf(p, pools[p][i].cfg) = "Failed"
              => TagAfter(p, pools[p][i].cfg) # "Established"]_vars

\* the stats seen through the handle of pool p for server s after the step
StatsAfter(p, s) == cells'[HandleAfter(p, s).stats].stats

\* C12: a completed transport attempt adds one to successes (on a response)
\* or to failures (on an error), and to nothing else, in the stats the handle
\* of the server holds when the attempt completes, also after a reconnect;
\* no step lowers a counter seen through a handle (stated for the handles
\* of a pool that has not been cloned)
C12_CountsEveryAttempt ==
    [][\A s \in 1..(IF Len(pools) = 1 THEN Len(pools[1]) ELSE 0) :
          LET before == StatsOf(HandleFor(1, s))
              after == StatsAfter(1, s)
              ok == IF last'.outcome.kind = "ok" THEN 1 ELSE 0
          IN /\ after.successes >= before.successes
             /\ after.failures >= before.failures
             /\ (IsComplete /\ last'.srv = s) =>
                   /\ after.successes = before.successes + ok
                   /\ after.failures = before.failures + (1 - ok)]_vars

\* C13: a send that finds the root Failed with the delay expired leaves the
\* handle with new stats that are Init, ask for no Edns and carry the
\* counters of the stats before it, and with a new client; any other send
\* leaves the handle, its client and every stats cell as they were
C13_ReconnectFrame ==
    [][(IsSend /\ Len(pools[last'.pool]) > 0) =>
          LET before == StatsOf(Root)
              after == HandleAfter(last'.pool, Root.cfg)
          IN IF /\ before.state.tag = "Failed"
                /\ now - before.state.when > MAX_RETRY_DELAYs
             THEN /\ cells'[after.stats].stats =
                        [state |-> [tag |-> "Init", send_edns |-> None],
                         successes |-> before.successes,
                         failures |-> before.failures]
                  /\ after.client # Root.client
                  /\ after.stats # Root.stats
             ELSE /\ after = Root
                  /\ cells' = cells
                  /\ nclients' = nclients]_vars

C13_Witness ==
    /\ last.type = "send"
    /\ last.attempts = 1
    /\ \E i \in DOMAIN pools[1] :
          /\ pools[1][i].cfg = last.srv
          /\ pools[1][i].client > Len(config)
          /\ StatsOf(pools[1][i]).state.tag = "Init"
          /\ StatsOf(pools[1][i]).successes >= 1
          /\ StatsOf(pools[1][i]).failures >= 1

----------------------------------------------------------------------------
(* NameServerStats on its own: two stats values drawn from the values the
   program can hold, with the transitions and the comparison applied to them *)

\* the Edns a response can carry
StatsEdns == {"edns0", "edns1"}

\* the values of NameServerState
StatsStates ==
    {[tag |-> "Init", send_edns |-> None]}
    \cup {[tag |-> "Established", remote_edns |-> e] : e \in StatsEdns \cup {None}}
    \cup {[tag |-> "Failed", error |-> e, when |-> w] :
             e \in TransportErrors, w \in {0, MAX_RETRY_DELAYs}}

\* the values of NameServerStats with counters up to MaxStat: Established
\* has counted a success, Failed a failure, and Init is either the default
\* or made by try_reconnect from Failed stats
StatsInputs ==
    {st \in [state : StatsStates, successes : 0..MaxStat, failures : 0..MaxStat] :
        /\ st.state.tag = "Established" => st.successes >= 1
        /\ st.state.tag = "Failed" => st.failures >= 1
        /\ st.state.tag = "Init" =>
              (st.failures >= 1 \/ (st.successes = 0 /\ st.failures = 0))}

StatsInit ==
    /\ phase = "stats"
    /\ config = <<>>
    /\ pools = <<>>
    /\ \E a \in StatsInputs, b \in StatsInputs : cells = <<Mutex(a), Mutex(b)>>
    /\ nclients = 0
    /\ inflight = EmptyBag
    /\ calls = 0
    /\ now = 0
    /\ advances = 0
    /\ panicked = FALSE
    /\ failedAt = <<>>
    /\ last = NoEvent("none")

\* stats.next_success(remote_edns) on the i-th value
StatsSuccess(i, remote_edns) ==
    /\ phase = "stats"
    /\ cells[i].stats.successes < MaxStat
    /\ cells' = [cells EXCEPT ![i].stats = next_success(@, remote_edns)]
    /\ last' = Event("next_success", i, 0, NoResult, 0, Ok(remote_edns))
    /\ UNCHANGED <<phase, config, pools, nclients, inflight, calls, now,
                   advances, panicked, failedAt>>

\* stats.next_failure(error, when) on the i-th value
StatsFailure(i, error, when) ==
    /\ phase = "stats"
    /\ cells[i].stats.failures < MaxStat
    /\ cells' = [cells EXCEPT ![i].stats = next_failure(@, error, when)]
    /\ last' = Event("next_failure", i, 0, NoResult, 0, Err(error))
    /\ UNCHANGED <<phase, config, pools, nclients, inflight, calls, now,
                   advances, panicked, failedAt>>

\* a.cmp(&b) for the i-th value as a and the j-th as b
StatsCompare(i, j) ==
    /\ phase = "stats"
    /\ last' = Event("cmp", i, j,
                     [kind |-> "cmp",
                      value |-> StatsCmp(cells[i].stats, cells[j].stats)],
                     0, NoResult)
    /\ UNCHANGED <<phase, config, pools, cells, nclients, inflight, calls,
                   now, advances, panicked, failedAt>>

StatsNext ==
    \/ \E i \in 1..2, e \in StatsEdns \cup {None} : StatsSuccess(i, e)
    \/ \E i \in 1..2, e \in TransportErrors, w \in {0, MAX_RETRY_DELAYs} :
          StatsFailure(i, e, w)
    \/ \E i \in 1..2, j \in 1..2 : StatsCompare(i, j)

SpecStats == StatsInit /\ [][StatsNext]_vars

\* C14: next_success leaves the stats Established with one more success and
\* the same failures; the Edns is the one of the response if it carries one,
\* else the one negotiated before if the state was Established, else none
C14_SuccessTransition ==
    [][last'.type = "next_success" =>
          LET before == cells[last'.pool].stats
              after == cells'[last'.pool].stats
              response == last'.outcome.value
          IN /\ after.state.tag = "Established"
             /\ after.successes = before.successes + 1
             /\ after.failures = before.failures
             /\ after.state.remote_edns =
                   IF response # None THEN response
                   ELSE IF before.state.tag = "Established"
                        THEN before.state.remote_edns
                        ELSE None]_vars

\* a response without Edns has left the negotiated Edns in place
C14_Witness ==
    /\ last.type = "next_success"
    /\ last.outcome.value = None
    /\ cells[last.pool].stats.state.remote_edns = "edns1"

\* the operands and the result of the comparison made by the latest step
CmpLeft == cells[last.pool].stats
CmpRight == cells[last.srv].stats
CmpResult == last.result.value

\* Ordering::reverse
Reverse(o) ==
    CASE o = "Greater" -> "Less"
      [] o = "Less" -> "Greater"
      [] o = "Equal" -> "Equal"

\* state x is of a higher rank than state y: Init above Established above Failed
Higher(x, y) ==
    <<x.tag, y.tag>> \in {<<"Init", "Established">>, <<"Init", "Failed">>,
                          <<"Established", "Failed">>}

\* C15: a.cmp(b) is the reverse of b.cmp(a); it is Equal exactly when
\* state rank, successes and failures of a and b are the same; and a above b
\* above c puts a above c
C15_ConsistentOrdering ==
    last.type = "cmp" =>
        /\ StatsCmp(CmpRight, CmpLeft) = Reverse(CmpResult)
        /\ CmpResult = "Equal" <=>
              /\ CmpLeft.state.tag = CmpRight.state.tag
              /\ CmpLeft.successes = CmpRight.successes
              /\ CmpLeft.failures = CmpRight.failures
        /\ \A c \in StatsInputs :
              (CmpResult = "Greater" /\ StatsCmp(CmpRight, c) = "Greater")
                  => StatsCmp(CmpLeft, c) = "Greater"

\* C16: of two stats with states of different rank, the one of the higher
\* rank is Greater, as left and as right operand, whatever the counters
C16_RankDecides ==
    last.type = "cmp" =>
        /\ Higher(CmpLeft.state, CmpRight.state) => CmpResult = "Greater"
        /\ Higher(CmpRight.state, CmpLeft.state) => CmpResult = "Less"

\* an Established server that never failed is below an Init server with failures
C16_Witness ==
    /\ last.type = "cmp"
    /\ CmpLeft.state.tag = "Established"
    /\ CmpLeft.failures = 0
    /\ CmpRight.state.tag = "Init"
    /\ CmpRight.failures >= 1
    /\ CmpRight.successes < CmpLeft.successes
    /\ CmpResult = "Less"

\* the two operands have states of the same rank
SameRank == CmpLeft.state.tag = CmpRight.state.tag

\* C17: of two stats of the same rank and with the same failures, the one
\* with fewer successes is Greater, as left and as right operand
C17_FewerSuccessesPreferred ==
    (last.type = "cmp" /\ SameRank /\ CmpLeft.failures = CmpRight.failures) =>
        /\ CmpLeft.successes < CmpRight.successes => CmpResult = "Greater"
        /\ CmpLeft.successes > CmpRight.successes => CmpResult = "Less"

C19_PoisonedLockReplaced ==
    [][(/\ IsSend
        /\ Len(pools[last'.pool]) > 0
        /\ cells[Root.stats].poisoned
        /\ StatsOf(Root).state.tag = "Failed"
        /\ now - StatsOf(Root).state.when > MAX_RETRY_DELAYs
        /\ ~panicked') =>
          LET after == HandleAfter(last'.pool, Root.cfg)
          IN /\ after.stats # Root.stats
             /\ ~cells'[after.stats].poisoned
             /\ cells'[after.stats].stats =
                   init(None, StatsOf(Root).successes, StatsOf(Root).failures)]_vars

\* C20: while a send waits for the answer of its transport, no guard of the
\* stats lock it uses is alive: the lock is taken and released inside
\* try_reconnect and inside the closure that records the outcome
C20_NoLockHeldWhileWaiting ==
    \A f \in BagToSet(inflight) : ~cells[f.mutex].held

\* two sends to the same server wait for the transport at the same time
C20_Witness ==
    /\ \E f \in BagToSet(inflight) : inflight[f] = 2
    /\ last.type = "send"
    /\ last.attempts = 1

====
